---------------------------- MODULE Spec2Model ----------------------------
(***************************************************************************)
(* Model of scripts/build_dashboard.py: the aggregation of the CMS CSV     *)
(* (parse_csv), the injection of the serialized dataset into the template  *)
(* (build_html) and the sequencing of a run (main).                        *)
(*                                                                         *)
(* Text is a sequence of one-character strings, so that trimming, slicing, *)
(* ordering, JSON escaping and regular-expression substitution are         *)
(* computed character by character.  A rate is kept in hundredths of a     *)
(* percent (75.0 is 7500), which is what round(x, 2) leaves of the float.  *)
(***************************************************************************)
EXTENDS Integers, Sequences, FiniteSets, TLC

VARIABLES pc, err, raw, rows_by_month, month_dates, states_seen,
          months_seen, data, template, output, outfile

vars == <<pc, err, raw, rows_by_month, month_dates, states_seen,
          months_seen, data, template, output, outfile>>

parseVars == <<rows_by_month, month_dates, states_seen, months_seen>>

fileVars == <<template, output, outfile>>

(***************************************************************************)
(* Bounds                                                                  *)
(***************************************************************************)
MaxRows == 3

(***************************************************************************)
(* Characters and strings                                                  *)
(***************************************************************************)
Ascii ==
   << " ", "!", "\"", "#", "$", "%", "&", "U+0027", "(", ")", "*", "+", ",", "-", ".", "/",
      "0", "1", "2", "3", "4", "5", "6", "7", "8", "9", ":", ";", "<", "=", ">", "?",
      "@", "A", "B", "C", "D", "E", "F", "G", "H", "I", "J", "K", "L", "M", "N", "O",
      "P", "Q", "R", "S", "T", "U", "V", "W", "X", "Y", "Z", "[", "\\", "]", "^", "_",
      "U+0060", "a", "b", "c", "d", "e", "f", "g", "h", "i", "j", "k", "l", "m", "n", "o",
      "p", "q", "r", "s", "t", "u", "v", "w", "x", "y", "z", "{", "|", "}", "~" >>

\* The character U+00E9 (e with acute accent), the one non-ASCII character
\* of the model.
EAcute == "U+00E9"

\* The code point of a character: str comparison in Python is by code point.
Ord(c) ==
   IF c = "\n" THEN 10
   ELSE IF c = EAcute THEN 233
   ELSE 31 + (CHOOSE i \in 1..Len(Ascii) : Ascii[i] = c)

Whitespace == {" ", "\n"}

Digits == {"0", "1", "2", "3", "4", "5", "6", "7", "8", "9"}

RECURSIVE Concat(_)
Concat(ss) == IF ss = <<>> THEN <<>> ELSE Head(ss) \o Concat(Tail(ss))

\* a < b for Python strings
RECURSIVE LexLess(_, _)
LexLess(a, b) ==
   IF b = <<>> THEN FALSE
   ELSE IF a = <<>> THEN TRUE
   ELSE IF Head(a) = Head(b) THEN LexLess(Tail(a), Tail(b))
   ELSE Ord(Head(a)) < Ord(Head(b))

\* the elements of S in descending order
RECURSIVE Sorted_Descending(_)
Sorted_Descending(S) ==
   IF S = {} THEN <<>>
   ELSE LET m == CHOOSE x \in S : \A y \in S \ {x} : LexLess(y, x)
        IN  <<m>> \o Sorted_Descending(S \ {m})

\* sorted(S) for a set of strings
RECURSIVE Sorted(_)
Sorted(S) ==
   IF S = {} THEN <<>>
   ELSE LET m == CHOOSE x \in S : \A y \in S \ {x} : LexLess(x, y)
        IN  <<m>> \o Sorted(S \ {m})

RECURSIVE LStrip(_)
LStrip(s) ==
   IF s # <<>> /\ Head(s) \in Whitespace THEN LStrip(Tail(s)) ELSE s

RECURSIVE RStrip(_)
RStrip(s) ==
   IF s # <<>> /\ s[Len(s)] \in Whitespace
   THEN RStrip(SubSeq(s, 1, Len(s) - 1)) ELSE s

\* str.strip()
Strip(s) == RStrip(LStrip(s))

\* s[:4] and s[4:]
Slice0To4(s) == SubSeq(s, 1, IF Len(s) < 4 THEN Len(s) ELSE 4)

Slice4On(s) == SubSeq(s, 5, Len(s))

\* the texts int() and float() accept, among the texts of the model
IsNumeral(s) == s # <<>> /\ \A i \in 1..Len(s) : s[i] \in Digits

DigitVal(c) == Ord(c) - 48

RECURSIVE IntOf(_)
IntOf(s) ==
   IF s = <<>> THEN 0
   ELSE 10 * IntOf(SubSeq(s, 1, Len(s) - 1)) + DigitVal(s[Len(s)])

\* str(n) for n >= 0
RECURSIVE StrOf(_)
StrOf(n) ==
   IF n < 10 THEN <<Ascii[n + 17]>>
   ELSE StrOf(n \div 10) \o <<Ascii[(n % 10) + 17]>>

(***************************************************************************)
(* Values held by the dictionaries                                         *)
(***************************************************************************)
None == [t |-> "null"]

Num(h) == [t |-> "num", v |-> h]

Str(s) == [t |-> "str", s |-> s]

\* A dict with insertion-ordered keys.
EmptyDict == [keys |-> <<>>, val |-> <<>>]

HasKey(d, k) == \E i \in 1..Len(d.keys) : d.keys[i] = k

DictGet(d, k) == d.val[CHOOSE i \in 1..Len(d.keys) : d.keys[i] = k]

\* d[k] = v: an existing key keeps its position and takes the new value
DictSet(d, k, v) ==
   IF HasKey(d, k)
   THEN [d EXCEPT !.val[CHOOSE i \in 1..Len(d.keys) : d.keys[i] = k] = v]
   ELSE [keys |-> Append(d.keys, k), val |-> Append(d.val, v)]

KeyMonth == <<"m", "o", "n", "t", "h">>

KeyDate == <<"d", "a", "t", "e">>

(***************************************************************************)
(* The rows the csv reader can yield                                       *)
(***************************************************************************)
Row(f, s, p, d, e) ==
   [flag |-> f, state |-> s, period |-> p, renewal_due |-> d, ex_parte |-> e]

P202301 == <<"2", "0", "2", "3", "0", "1">>

P202212 == <<"2", "0", "2", "2", "1", "2">>

P202302 == <<"2", "0", "2", "3", "0", "2">>

T200 == <<"2", "0", "0">>

T150 == <<"1", "5", "0">>

CountPairs ==
   { <<T200, T150>>, <<<<"3">>, <<"1">>>>, <<<<"0">>, <<"0">>>>,
     <<<<>>, T150>>, <<T200, <<>>>>, <<<<"x">>, T150>>, <<T200, <<"x">>>> }

Rows ==
   { Row(<<"U">>, <<"C", "A">>, P202301, c[1], c[2]) : c \in CountPairs }
   \cup
   { Row(<<"U">>, x[1], x[2], c[1], c[2]) :
        x \in { <<<<"T", "X">>, P202301>>, <<<<"C", "A">>, P202212>> },
        c \in { <<T200, T150>>, <<<<"0">>, <<"0">>>> } }
   \cup
   { Row(<<" ", "U", " ">>, <<" ", "C", "A", " ">>,
         <<" ">> \o P202301 \o <<" ">>, <<" ", "3">>, <<"1", " ">>),
     Row(<<"O">>, <<"N", "Y">>, P202302, T200, T150),
     Row(<<"u">>, <<"N", "Y">>, P202302, T200, T150),
     Row(<<>>, <<"N", "Y">>, P202302, T200, T150),
     Row(<<"U", "U">>, <<"N", "Y">>, P202302, T200, T150),
     Row(<<"U">>, KeyMonth, P202301, T200, T150),
     Row(<<"U">>, KeyDate, P202212, <<"3">>, <<"1">>),
     Row(<<"U">>, <<"C", "A">>, <<"2", "0", "2", "3">>, T200, T150) }

(***************************************************************************)
(* parse_csv                                                               *)
(***************************************************************************)
\* a filter that ignores the case of the flag
IsUpdated_AnyCase(row) == Strip(row.flag) \in {<<"U">>, <<"u">>}

\* the test of the first statement of the loop, negated: the row is used
IsUpdated(row) == Strip(row.flag) = <<"U">>

\* f"{mon}/1/{year}" with year = month[:4] and mon = str(int(month[4:]))
DateLabel(month) ==
   StrOf(IntOf(Slice4On(month))) \o <<"/", "1", "/">> \o Slice0To4(month)

\* round(n / d * 100, 2) in hundredths, for non-negative n and positive d
RoundRate(n, d) == (2 * n * 10000 + d) \div (2 * d)

\* a cell computation that stores 0 where the code stores None
CellValue_ZeroForMissing(renewal_due, ex_parte) ==
   IF renewal_due # <<>> /\ ex_parte # <<>>
   THEN IF ~IsNumeral(ex_parte) \/ ~IsNumeral(renewal_due) THEN None
        ELSE IF IntOf(renewal_due) = 0 THEN Num(0)
        ELSE Num(RoundRate(IntOf(ex_parte), IntOf(renewal_due)))
   ELSE None

\* the value the if/try/except stores for the cell
CellValue(renewal_due, ex_parte) ==
   IF renewal_due # <<>> /\ ex_parte # <<>>
   THEN IF ~IsNumeral(ex_parte) \/ ~IsNumeral(renewal_due) THEN None
        ELSE IF IntOf(renewal_due) = 0 THEN None
        ELSE Num(RoundRate(IntOf(ex_parte), IntOf(renewal_due)))
   ELSE None

\* a store that keeps the value already recorded for the cell
StoreCell_KeepFirst(rbm, month, state, v) ==
   LET old == IF month \in DOMAIN rbm THEN rbm[month] ELSE <<>>
       new == [s \in (DOMAIN old) \cup {state} |->
                  IF s \in DOMAIN old THEN old[s] ELSE v]
   IN  [m \in (DOMAIN rbm) \cup {month} |->
          IF m = month THEN new ELSE rbm[m]]

\* rows_by_month[month][state] = v on a defaultdict(dict)
StoreCell(rbm, month, state, v) ==
   LET old == IF month \in DOMAIN rbm THEN rbm[month] ELSE <<>>
       new == [s \in (DOMAIN old) \cup {state} |->
                  IF s = state THEN v ELSE old[s]]
   IN  [m \in (DOMAIN rbm) \cup {month} |->
          IF m = month THEN new ELSE rbm[m]]

\* rows_by_month[m].get(s)
GetCell(rbm, m, s) ==
   IF m \in DOMAIN rbm /\ s \in DOMAIN rbm[m] THEN rbm[m][s] ELSE None

\* a final pass that gives a key only to the states recorded for the month
RECURSIVE FillEntry_OnlyRecorded(_, _, _, _)
FillEntry_OnlyRecorded(entry, states, rbm, m) ==
   IF states = <<>> THEN entry
   ELSE IF m \in DOMAIN rbm /\ Head(states) \in DOMAIN rbm[m]
   THEN FillEntry_OnlyRecorded(DictSet(entry, Head(states), rbm[m][Head(states)]),
                               Tail(states), rbm, m)
   ELSE FillEntry_OnlyRecorded(entry, Tail(states), rbm, m)

\* for s in states: entry[s] = rows_by_month[m].get(s)
RECURSIVE FillEntry(_, _, _, _)
FillEntry(entry, states, rbm, m) ==
   IF states = <<>> THEN entry
   ELSE FillEntry(DictSet(entry, Head(states), GetCell(rbm, m, Head(states))),
                  Tail(states), rbm, m)

\* one element of all_rows
BuildEntry(m, states, rbm, dates) ==
   FillEntry(DictSet(DictSet(EmptyDict, KeyMonth, Str(m)),
                     KeyDate, Str(dates[m])),
             states, rbm, m)

\* One iteration of "for row in reader": the reader yields a row of S.
ReadRow(S) ==
   /\ pc = "parse_csv"
   /\ Len(raw) < MaxRows
   /\ \E row \in S :
        /\ raw' = Append(raw, row)
        /\ IF ~IsUpdated(row)
           THEN UNCHANGED <<pc, err, parseVars>>
           ELSE LET state == Strip(row.state)
                    month == Strip(row.period)
                    renewal_due == Strip(row.renewal_due)
                    ex_parte == Strip(row.ex_parte)
                IN  /\ states_seen' = states_seen \cup {state}
                    /\ months_seen' = months_seen \cup {month}
                    /\ IF ~IsNumeral(Slice4On(month))
                       THEN /\ pc' = "raised"
                            /\ err' = "ValueError"
                            /\ UNCHANGED <<month_dates, rows_by_month>>
                       ELSE /\ month_dates' =
                                 [m \in (DOMAIN month_dates) \cup {month} |->
                                    IF m = month THEN DateLabel(month)
                                    ELSE month_dates[m]]
                            /\ rows_by_month' =
                                 StoreCell(rows_by_month, month, state,
                                           CellValue(renewal_due, ex_parte))
                            /\ UNCHANGED <<pc, err>>
   /\ UNCHANGED <<data, fileVars>>

\* The reader is exhausted: the final pass, the print and the return.
ParseCsvReturn(next) ==
   /\ pc = "parse_csv"
   /\ LET states == Sorted(states_seen)
          months == Sorted(months_seen)
          all_rows == [i \in 1..Len(months) |->
                         BuildEntry(months[i], states, rows_by_month,
                                    month_dates)]
      IN  IF months = <<>>
          THEN /\ pc' = "raised"
               /\ err' = "IndexError"
               /\ UNCHANGED data
          ELSE /\ pc' = next
               /\ data' = [states |-> states, rows |-> all_rows]
               /\ UNCHANGED err
   /\ UNCHANGED <<raw, parseVars, fileVars>>

NoData == [states |-> <<>>, rows |-> <<>>]

Previous == <<"o", "l", "d">>

InitParse ==
   /\ pc = "parse_csv"
   /\ err = "none"
   /\ raw = <<>>
   /\ rows_by_month = <<>>
   /\ month_dates = <<>>
   /\ states_seen = {}
   /\ months_seen = {}
   /\ data = NoData
   /\ template = <<>>
   /\ output = <<>>
   /\ outfile = Previous

NextParse == ReadRow(Rows) \/ ParseCsvReturn("returned")

SpecParse == InitParse /\ [][NextParse]_vars

(***************************************************************************)
(* json.dumps                                                              *)
(***************************************************************************)
Backslash == "\\"

Quote == "\""

\* the escape json.dumps (ensure_ascii) writes for one character
JsonEscape(c) ==
   IF c = Quote THEN <<Backslash, Quote>>
   ELSE IF c = Backslash THEN <<Backslash, Backslash>>
   ELSE IF c = "\n" THEN <<Backslash, "n">>
   ELSE IF c = EAcute THEN <<Backslash, "u", "0", "0", "e", "9">>
   ELSE <<c>>

JsonString(s) ==
   <<Quote>> \o Concat([i \in 1..Len(s) |-> JsonEscape(s[i])]) \o <<Quote>>

\* repr of a float with at most two decimals, given in hundredths
FloatRepr(h) ==
   StrOf(h \div 100) \o <<".">> \o
      (IF h % 10 = 0 THEN StrOf((h % 100) \div 10)
       ELSE StrOf((h % 100) \div 10) \o StrOf(h % 10))

JsonValue(v) ==
   IF v.t = "null" THEN <<"n", "u", "l", "l">>
   ELSE IF v.t = "num" THEN FloatRepr(v.v)
   ELSE JsonString(v.s)

\* ", ".join(items)
RECURSIVE JoinComma(_)
JoinComma(items) ==
   IF items = <<>> THEN <<>>
   ELSE IF Len(items) = 1 THEN items[1]
   ELSE items[1] \o <<",", " ">> \o JoinComma(Tail(items))

JsonDict(d) ==
   <<"{">> \o
   JoinComma([i \in 1..Len(d.keys) |->
                 JsonString(d.keys[i]) \o <<":", " ">> \o JsonValue(d.val[i])])
   \o <<"}">>

\* payload = json.dumps(data)
JsonDumps(d) ==
   <<"{">> \o JsonString(<<"s", "t", "a", "t", "e", "s">>) \o <<":", " ", "[">>
   \o JoinComma([i \in 1..Len(d.states) |-> JsonString(d.states[i])])
   \o <<"]", ",", " ">> \o JsonString(<<"r", "o", "w", "s">>) \o <<":", " ", "[">>
   \o JoinComma([i \in 1..Len(d.rows) |-> JsonDict(d.rows[i])])
   \o <<"]", "}">>

(***************************************************************************)
(* re.sub                                                                  *)
(***************************************************************************)
StartMarker ==
   <<"/", "/", " ", "I", "N", "J", "E", "C", "T", "_", "D", "A", "T", "A",
     "_", "S", "T", "A", "R", "T">>

EndMarker ==
   <<"/", "/", " ", "I", "N", "J", "E", "C", "T", "_", "D", "A", "T", "A",
     "_", "E", "N", "D">>

\* the replacement argument, an f-string around the payload
Replacement(payload) ==
   StartMarker \o <<"\n">>
   \o <<"c", "o", "n", "s", "t", " ", "I", "N", "J", "E", "C", "T", "E", "D",
        " ", "=", " ">>
   \o payload \o <<";", "\n">> \o EndMarker

StartsWithAt(t, i, p) ==
   /\ i + Len(p) - 1 <= Len(t)
   /\ SubSeq(t, i, i + Len(p) - 1) = p

\* The index after the match of the pattern that starts at i, 0 if none:
\* the start marker and a newline, then the fewest characters (.*? with
\* DOTALL) up to an end marker.
MatchEnd(t, i) ==
   IF ~StartsWithAt(t, i, StartMarker \o <<"\n">>) THEN 0
   ELSE LET from == i + Len(StartMarker) + 1
            ends == {j \in from..Len(t) : StartsWithAt(t, j, EndMarker)}
        IN  IF ends = {} THEN 0
            ELSE (CHOOSE j \in ends : \A k \in ends : j <= k) + Len(EndMarker)

\* every non-overlapping match from i on is replaced by repl, the text
\* between the matches is copied
RECURSIVE SubFrom(_, _, _)
SubFrom(t, i, repl) ==
   LET starts == {k \in i..Len(t) : MatchEnd(t, k) # 0}
   IN  IF starts = {} THEN SubSeq(t, i, Len(t))
       ELSE LET k == CHOOSE k \in starts : \A j \in starts : k <= j
            IN  SubSeq(t, i, k - 1) \o repl \o SubFrom(t, MatchEnd(t, k), repl)

AsciiLetter(c) == Ord(c) \in (65..90) \cup (97..122)

\* the character a backslash escape of a replacement template stands for
EscapeChar(c) ==
   IF c = Backslash THEN Backslash
   ELSE IF c = "n" THEN "\n"
   ELSE IF c = "t" THEN "\t"
   ELSE IF c = "r" THEN "\r"
   ELSE IF c = "f" THEN "\f"
   ELSE IF c = "a" THEN "U+0007"
   ELSE IF c = "b" THEN "U+0008"
   ELSE "U+000B"

\* The replacement template as re parses it, for a pattern without groups:
\* a known escape becomes its character, a backslash before another ASCII
\* letter or a digit is an error (bad escape, invalid group reference), a
\* backslash before any other character stays with that character.
RECURSIVE ExpandTemplate(_)
ExpandTemplate(s) ==
   LET slashes == {k \in 1..Len(s) : s[k] = Backslash}
   IN  IF slashes = {} THEN [ok |-> TRUE, text |-> s]
       ELSE LET k == CHOOSE k \in slashes : \A j \in slashes : k <= j
            IN  IF k = Len(s) THEN [ok |-> FALSE, text |-> <<>>]
                ELSE LET c == s[k + 1]
                         r == ExpandTemplate(SubSeq(s, k + 2, Len(s)))
                         lit == SubSeq(s, 1, k - 1)
                     IN  IF c \in {Backslash, "n", "t", "r", "f", "a", "b", "v"}
                         THEN [ok |-> r.ok,
                               text |-> lit \o <<EscapeChar(c)>> \o r.text]
                         ELSE IF AsciiLetter(c) \/ c \in Digits
                         THEN [ok |-> FALSE, text |-> <<>>]
                         ELSE [ok |-> r.ok,
                               text |-> lit \o <<Backslash, c>> \o r.text]

\* re.sub(pattern, repl, template, flags=re.DOTALL)
ReSub(repl, t) ==
   LET r == ExpandTemplate(repl)
   IN  IF r.ok THEN [ok |-> TRUE, text |-> SubFrom(t, 1, r.text)]
       ELSE [ok |-> FALSE, text |-> <<>>]

(***************************************************************************)
(* The files and the input of a run                                        *)
(***************************************************************************)
Html == <<"<", "h", "t", "m", "l", ">">>

HtmlEnd == <<"<", "/", "h", "t", "m", "l", ">">>

Templates ==
   { Html \o StartMarker \o <<"\n", "o", "l", "d", "\n">> \o EndMarker \o HtmlEnd,
     Html \o HtmlEnd,
     StartMarker \o <<"\n">> \o EndMarker \o <<"x">>
        \o StartMarker \o <<"\n", "q", "\n">> \o EndMarker }

MainRows ==
   { Row(<<"U">>, <<"C", "A">>, P202301, T200, T150),
     Row(<<"U">>, <<"A", Backslash, "B">>, P202301, <<"3">>, <<"1">>),
     Row(<<"U">>, <<EAcute>>, P202212, <<"0">>, <<"0">>),
     Row(<<"O">>, <<"N", "Y">>, P202302, T200, T150) }

(***************************************************************************)
(* build_html                                                              *)
(***************************************************************************)
Raise(e) == pc' = "raised" /\ err' = e

\* with open(template_path) as f: template = f.read()
ReadTemplate ==
   /\ pc = "build_html"
   /\ \/ pc' = "re_sub" /\ UNCHANGED err
      \/ Raise("OSError")
   /\ UNCHANGED <<raw, parseVars, data, fileVars>>

\* payload = json.dumps(data); output = re.sub(...)
Render ==
   /\ pc = "re_sub"
   /\ LET r == ReSub(Replacement(JsonDumps(data)), template)
      IN  IF r.ok
          THEN pc' = "makedirs" /\ output' = r.text /\ UNCHANGED err
          ELSE Raise("re.error") /\ UNCHANGED output
   /\ UNCHANGED <<raw, parseVars, data, template, outfile>>

\* os.makedirs(os.path.dirname(output_path), exist_ok=True)
MakeDirs ==
   /\ pc = "makedirs"
   /\ \/ pc' = "open" /\ UNCHANGED err
      \/ Raise("OSError")
   /\ UNCHANGED <<raw, parseVars, data, fileVars>>

\* open(output_path, "w"): the file is truncated when the open succeeds
OpenOutput ==
   /\ pc = "open"
   /\ \/ pc' = "write" /\ outfile' = <<>> /\ UNCHANGED err
      \/ Raise("OSError") /\ UNCHANGED outfile
   /\ UNCHANGED <<raw, parseVars, data, template, output>>

\* f.write(output) and the close of the with block; a failing write leaves
\* what reached the file, some proper prefix of the text
WriteOutput ==
   /\ pc = "write"
   /\ \/ pc' = "done" /\ outfile' = output /\ UNCHANGED err
      \/ /\ Raise("OSError")
         /\ \E n \in 0..(Len(output) - 1) : outfile' = SubSeq(output, 1, n)
   /\ UNCHANGED <<raw, parseVars, data, template, output>>

(***************************************************************************)
(* main                                                                    *)
(***************************************************************************)
\* csv_url = get_csv_url(): a transport or HTTP error, or a response
\* without the downloadURL, raises
GetCsvUrl ==
   /\ pc = "get_csv_url"
   /\ \/ pc' = "download_csv" /\ UNCHANGED err
      \/ \E e \in {"RequestException", "RuntimeError"} : Raise(e)
   /\ UNCHANGED <<raw, parseVars, data, fileVars>>

\* raw_csv = download_csv(csv_url)
DownloadCsv ==
   /\ pc = "download_csv"
   /\ \/ pc' = "parse_csv" /\ UNCHANGED err
      \/ Raise("RequestException")
   /\ UNCHANGED <<raw, parseVars, data, fileVars>>

\* the status of the process: an exception that main lets through ends the
\* interpreter with status 1
ExitStatus == IF pc = "raised" THEN 1 ELSE IF pc = "done" THEN 0 ELSE -1

Init ==
   /\ pc = "get_csv_url"
   /\ err = "none"
   /\ raw = <<>>
   /\ rows_by_month = <<>>
   /\ month_dates = <<>>
   /\ states_seen = {}
   /\ months_seen = {}
   /\ data = NoData
   /\ template \in Templates
   /\ output = <<>>
   /\ outfile = Previous

Next ==
   \/ GetCsvUrl
   \/ DownloadCsv
   \/ ReadRow(MainRows)
   \/ ParseCsvReturn("build_html")
   \/ ReadTemplate
   \/ Render
   \/ MakeDirs
   \/ OpenOutput
   \/ WriteOutput

Spec == Init /\ [][Next]_vars

(***************************************************************************)
(* Properties of parse_csv                                                 *)
(***************************************************************************)
\* The flag is the single character U with nothing but whitespace around it.
Kept(r) ==
   \E i \in 1..Len(r.flag) :
      /\ r.flag[i] = "U"
      /\ \A j \in (1..Len(r.flag)) \ {i} : r.flag[j] \in Whitespace

KeptIndexes == {i \in 1..Len(raw) : Kept(raw[i])}

\* the step consumed one more row
Consumed == pc = "parse_csv" /\ Len(raw') = Len(raw) + 1

WellFormedPeriod(r) ==
   /\ Len(Strip(r.period)) = 6
   /\ \A i \in 1..6 : Strip(r.period)[i] \in Digits

\* the count texts for which the cell has no rate
NullCase(r) ==
   LET d == Strip(r.renewal_due)
       e == Strip(r.ex_parte)
   IN  \/ d = <<>>
       \/ e = <<>>
       \/ ~IsNumeral(d)
       \/ ~IsNumeral(e)
       \/ IntOf(d) = 0

ExpectedCell(r) ==
   IF NullCase(r) THEN None
   ELSE Num(RoundRate(IntOf(Strip(r.ex_parte)), IntOf(Strip(r.renewal_due))))

KeptStates == {Strip(raw[i].state) : i \in KeptIndexes}

KeptPeriods == {Strip(raw[i].period) : i \in KeptIndexes}

\* the last kept row of the input for the cell of row i is row i itself
LastForCell(i) ==
   /\ i \in KeptIndexes
   /\ \A j \in KeptIndexes :
         (j > i) => \/ Strip(raw[j].state) # Strip(raw[i].state)
                    \/ Strip(raw[j].period) # Strip(raw[i].period)

NoDuplicates(seq) ==
   \A i, j \in 1..Len(seq) : (seq[i] = seq[j]) => (i = j)

\* C1: a row whose trimmed flag is not exactly "U" changes nothing of what
\* parse_csv has aggregated, so the returned states and rows do not depend
\* on it: consuming such a row leaves every accumulator, the control state
\* and the result as they were.
C1_DiscardedRowLeavesAggregate ==
   [][(Consumed /\ ~Kept(raw'[Len(raw')]))
         => UNCHANGED <<parseVars, pc, err, data>>]_vars

\* C1 witness: a dataset was returned from an input holding a kept row and
\* a discarded row that names a state the dataset does not have.
C1_Witness ==
   /\ pc = "returned"
   /\ KeptIndexes # {}
   /\ \E j \in 1..Len(raw) :
         /\ ~Kept(raw[j])
         /\ \A k \in 1..Len(data.states) : data.states[k] # Strip(raw[j].state)

\* C2: consuming a kept row with a well-formed period whose renewal-due or
\* ex-parte text is empty or non-numeric, or whose renewal-due value is
\* zero, records null for its (period, state) cell, raises nothing and
\* leaves the loop running for the remaining rows.
C2_MissingCountsRecordNull ==
   [][(Consumed /\ Kept(raw'[Len(raw')]) /\ WellFormedPeriod(raw'[Len(raw')])
         /\ NullCase(raw'[Len(raw')]))
         => LET r == raw'[Len(raw')]
            IN  /\ pc' = "parse_csv"
                /\ err' = "none"
                /\ Strip(r.period) \in DOMAIN rows_by_month'
                /\ Strip(r.state) \in DOMAIN rows_by_month'[Strip(r.period)]
                /\ rows_by_month'[Strip(r.period)][Strip(r.state)] = None]_vars

\* C2 witness: a dataset was returned whose input ends in a kept row with a
\* zero renewal-due count, after a row that gave the same cell a rate.
C2_Witness ==
   /\ pc = "returned"
   /\ Len(raw) >= 2
   /\ LET r == raw[Len(raw)]
      IN  /\ Kept(r) /\ WellFormedPeriod(r)
          /\ Strip(r.renewal_due) = <<"0">>
          /\ GetCell(rows_by_month, Strip(r.period), Strip(r.state)) = None
          /\ \E i \in KeptIndexes :
                /\ i < Len(raw)
                /\ Strip(raw[i].state) = Strip(r.state)
                /\ Strip(raw[i].period) = Strip(r.period)
                /\ ~NullCase(raw[i])

\* C3: every element of the returned rows has the keys month and date and
\* one key for every state of the returned states, and no other key; no
\* key occurs twice and the value under a state is a number or null.
C3_MatrixIsDense ==
   (pc = "returned") =>
      \A i \in 1..Len(data.rows) :
         LET e == data.rows[i]
         IN  /\ NoDuplicates(e.keys)
             /\ {e.keys[k] : k \in 1..Len(e.keys)}
                   = {KeyMonth, KeyDate}
                        \cup {data.states[k] : k \in 1..Len(data.states)}
             /\ \A k \in 1..Len(data.states) :
                   DictGet(e, data.states[k]).t \in {"num", "null"}

\* C3 witness: a dataset with two periods and a state that has a kept row
\* in only one of them.
C3_Witness ==
   /\ pc = "returned"
   /\ Len(data.rows) = 2
   /\ \E s \in KeptStates :
         \E m \in KeptPeriods :
            \A i \in KeptIndexes :
               ~(Strip(raw[i].state) = s /\ Strip(raw[i].period) = m)

\* C4: the returned states are in strictly ascending lexicographic order
\* (hence without duplicates) and are exactly the trimmed state
\* identifiers of the kept rows.
C4_StatesSortedAndExact ==
   (pc = "returned") =>
      /\ \A k \in 1..(Len(data.states) - 1) :
            LexLess(data.states[k], data.states[k + 1])
      /\ {data.states[k] : k \in 1..Len(data.states)} = KeptStates

\* C4 witness: a dataset with two states, one of them seen only in a kept
\* row without a rate, returned from an input that also has a discarded row.
C4_Witness ==
   /\ pc = "returned"
   /\ Len(data.states) >= 2
   /\ \E j \in 1..Len(raw) : ~Kept(raw[j])
   /\ \E i \in KeptIndexes :
         /\ NullCase(raw[i])
         /\ \A j \in KeptIndexes \ {i} :
               Strip(raw[j].state) # Strip(raw[i].state)

\* C5: for every cell, the returned dataset holds the value computed from
\* the last kept row of the input for that (state, period) pair, in the one
\* element of rows built for the period.
C5_LastWriteWins ==
   (pc = "returned") =>
      /\ Len(data.rows) = Cardinality(KeptPeriods)
      /\ \A i \in 1..Len(raw) :
            LastForCell(i) =>
               \E k \in 1..Len(data.rows) :
                  /\ Sorted(KeptPeriods)[k] = Strip(raw[i].period)
                  /\ DictGet(data.rows[k], Strip(raw[i].state))
                        = ExpectedCell(raw[i])

\* C5 witness: a dataset returned from an input in which a kept row without
\* a rate follows a kept row with a rate for the same pair.
C5_Witness ==
   /\ pc = "returned"
   /\ \E i, j \in KeptIndexes :
         /\ i < j
         /\ LastForCell(j)
         /\ Strip(raw[i].state) = Strip(raw[j].state)
         /\ Strip(raw[i].period) = Strip(raw[j].period)
         /\ ~NullCase(raw[i])
         /\ NullCase(raw[j])

\* C6: the returned rows have one element per distinct period of the kept
\* rows, and the month fields of consecutive elements are period texts in
\* strictly ascending lexicographic order.
C6_RowsAscendingByMonth ==
   (pc = "returned") =>
      /\ Len(data.rows) = Cardinality(KeptPeriods)
      /\ \A k \in 1..Len(data.rows) :
            /\ DictGet(data.rows[k], KeyMonth).t = "str"
            /\ DictGet(data.rows[k], KeyMonth).s \in KeptPeriods
      /\ \A k \in 1..(Len(data.rows) - 1) :
            LexLess(DictGet(data.rows[k], KeyMonth).s,
                    DictGet(data.rows[k + 1], KeyMonth).s)

\* C10: when the input has no kept row, parse_csv ends by returning the
\* empty dataset, with states = [] and rows = [], and raises nothing.
C10_NoKeptRowReturnsEmptyDataset ==
   (pc # "parse_csv" /\ KeptIndexes = {}) =>
      (pc = "returned" /\ err = "none" /\ data = NoData)

(***************************************************************************)
(* Properties of build_html and main                                       *)
(***************************************************************************)
\* the template holds a start marker and, after it, an end marker
HasMarkerPair(t) ==
   \E i \in 1..Len(t) :
      /\ StartsWithAt(t, i, StartMarker)
      /\ \E j \in (i + Len(StartMarker))..Len(t) : StartsWithAt(t, j, EndMarker)

RunEnded == pc \in {"done", "raised"}

\* the rendering step has been taken, with or without a result
RenderTaken == pc \in {"makedirs", "open", "write", "done"} \/ err = "re.error"

\* The template with every marker region replaced by the markers around
\* the assignment of the payload, the payload taken character for character.
InjectedVerbatim(t, payload) ==
   SubFrom(t, 1, StartMarker \o <<"\n">>
                 \o <<"c", "o", "n", "s", "t", " ", "I", "N", "J", "E", "C",
                      "T", "E", "D", " ", "=", " ">>
                 \o payload \o <<";", "\n">> \o EndMarker)

\* C7: a run whose template has no marker pair ends with status 1 and with
\* the output file as it was before the run.
C7_MissingMarkersFailTheRun ==
   (RunEnded /\ ~HasMarkerPair(template)) =>
      (ExitStatus = 1 /\ outfile = Previous)

\* C8: the output file is touched only once resolution, fetch, aggregation
\* and rendering have succeeded, and a run that ends in failure leaves the
\* file with its previous contents or with the complete rendered text.
C8_FailureLeavesNoPartialOutput ==
   /\ (outfile # Previous) =>
         (pc \in {"write", "done", "raised"} /\ data # NoData /\ output # <<>>)
   /\ (ExitStatus = 1) => (outfile \in {Previous, output})

\* C9: once rendering has been attempted on a template with the marker
\* pair, the output is the template with the marker region replaced by the
\* markers around "const INJECTED = <payload>;", the payload character for
\* character, and the text outside the region unchanged.
C9_PayloadInjectedVerbatim ==
   (RenderTaken /\ HasMarkerPair(template)) =>
      /\ err # "re.error"
      /\ output = InjectedVerbatim(template, JsonDumps(data))

=============================================================================
